---- MODULE Spec2Model ----
(***************************************************************************)
(* A model of the whiteread crate (src/src/lib.rs): the StrStream token    *)
(* cursor with its two providers (SplitWhitespace and WhiteReader), the    *)
(* White::read protocol for the built-in shapes, and the line-grained      *)
(* methods of WhiteReader.                                                 *)
(*                                                                         *)
(* Text is a sequence of one-character strings.  A SplitWhitespace cursor  *)
(* is the text it has not scanned yet.  The byte source of a WhiteReader   *)
(* is the text it has not delivered yet; the marker IoFault in it stands   *)
(* for a read that the source answers with an io::Error.                   *)
(***************************************************************************)
EXTENDS Integers, Sequences, FiniteSets, TLC

VARIABLES
    buf,      \* WhiteReader.buf: what the BufRead has not delivered yet
    line,     \* WhiteReader.line: the line buffer
    words,    \* WhiteReader.words: the SplitWhitespace cursor into line
    stream,   \* a one-shot SplitWhitespace cursor over a fixed string
    ended,    \* the cursors whose StrStream::next has returned Ok(None)
    last      \* the last call: method, shape, result, reader before it

vars == <<buf, line, words, stream, ended, last>>

\* ------------------------------------------------------------- bounds

\* The longest source text (in characters, line terminators included).
MaxSrcLen == 4

\* ------------------------------------------------------------- text

Digits == {"0", "1"}
WhiteSpace == {" ", "\n"}
IoFault == "!"
Alphabet == Digits \cup {"x"} \cup WhiteSpace

\* Every text of at most n characters over the set of characters cs.
Texts(cs, n) == UNION {[1..k -> cs] : k \in 0..n}

Sources == Texts(Alphabet, MaxSrcLen)

\* char::is_whitespace, as str::split_whitespace uses it.
is_whitespace(c) == c \in WhiteSpace

RECURSIVE SkipWhite(_)
SkipWhite(w) ==
    IF w = <<>> THEN <<>>
    ELSE IF is_whitespace(Head(w)) THEN SkipWhite(Tail(w))
    ELSE w

\* The length of the maximal run of non-whitespace at the head of w.
RECURSIVE RunLen(_)
RunLen(w) ==
    IF w = <<>> THEN 0
    ELSE IF is_whitespace(Head(w)) THEN 0
    ELSE 1 + RunLen(Tail(w))

\* ------------------------------------------------------------- results

Ok(v) == [tag |-> "Ok", val |-> v, err |-> "none"]
Err(e) == [tag |-> "Err", val |-> <<>>, err |-> e]
TooShort == Err("TooShort")
Leftovers == Err("Leftovers")
ParseError == Err("ParseError")
IoError == Err("IoError")

\* Option<T>: None is the empty sequence, Some(x) the sequence <<x>>.
None == <<>>
Some(x) == <<x>>

IsOk(r) == r.tag = "Ok"
IsErr(r, e) == r.tag = "Err" /\ r.err = e
SameRes(a, b) == a.tag = b.tag /\ a.err = b.err /\ (a.tag = "Ok" => a.val = b.val)

\* Mutant: every error is mapped to the absent value.
ok_or_none_any_error(r) ==
    IF IsOk(r) THEN Ok(Some(r.val)) ELSE Ok(None)

\* WhiteResultExt::ok_or_none.
ok_or_none(r) ==
    IF IsOk(r) THEN Ok(Some(r.val))
    ELSE IF r.err = "TooShort" THEN Ok(None)
    ELSE r

\* ------------------------------------------------------------- shapes

Unit == [k |-> "unit", of |-> <<>>]
U8 == [k |-> "u8", of |-> <<>>]
Usize == [k |-> "usize", of |-> <<>>]
Char == [k |-> "char", of |-> <<>>]
Str == [k |-> "string", of |-> <<>>]
Tuple(ts) == [k |-> "tuple", of |-> ts]
Vec(t) == [k |-> "vec", of |-> <<t>>]
Lengthed(t) == [k |-> "lengthed", of |-> <<t>>]

\* The shapes the reader's methods are called with.
Shapes == {Unit, U8, Tuple(<<U8, U8>>), Vec(U8), Lengthed(U8)}

\* ------------------------------------------------------------- scalars

DigitVal == [c \in {"0", "1", "2", "3", "4", "5", "6", "7", "8", "9"} |->
    CASE c = "0" -> 0 [] c = "1" -> 1 [] c = "2" -> 2 [] c = "3" -> 3
      [] c = "4" -> 4 [] c = "5" -> 5 [] c = "6" -> 6 [] c = "7" -> 7
      [] c = "8" -> 8 [] c = "9" -> 9]

\* Mutant: the digits are weighed from the wrong end.
RECURSIVE Decimal_reversed(_)
Decimal_reversed(tok) ==
    IF tok = <<>> THEN 0
    ELSE 10 * Decimal_reversed(Tail(tok)) + DigitVal[Head(tok)]

RECURSIVE Decimal(_)
Decimal(tok) ==
    IF tok = <<>> THEN 0
    ELSE 10 * Decimal(SubSeq(tok, 1, Len(tok) - 1)) + DigitVal[tok[Len(tok)]]

U8Max == 255

\* str::parse for the unsigned integers: decimal digits only, in range
\* (usize does not overflow on any token the bounds allow); for String: the
\* token itself, never an error.
from_str(k, tok) ==
    IF k = "string" THEN Ok(tok)
    ELSE IF tok = <<>> \/ \E i \in 1..Len(tok) : tok[i] \notin DOMAIN DigitVal
    THEN ParseError
    ELSE IF k = "u8" /\ Decimal(tok) > U8Max THEN ParseError
    ELSE Ok(Decimal(tok))

\* ------------------------------------------------------------- cursors

\* Iterator::next of SplitWhitespace: skip whitespace, take the maximal run.
SplitWhitespace_next(w) ==
    LET s == SkipWhite(w)
        n == RunLen(s)
    IN  IF s = <<>> THEN [opt |-> None, words |-> <<>>]
        ELSE [opt |-> Some(SubSeq(s, 1, n)), words |-> SubSeq(s, n + 1, Len(s))]

\* BufRead::read_line on the source b: the characters up to and including
\* the first line terminator, or up to the end, or up to a failing read.
LineEnd(b) ==
    LET stops == {i \in 1..Len(b) : b[i] = "\n" \/ b[i] = IoFault}
    IN  IF stops = {} THEN Len(b)
        ELSE CHOOSE i \in stops : \A j \in stops : i <= j

\* WhiteReader::read_line.  A stream st is a reader together with the
\* provider reading it ("reader": the WhiteReader itself, "words": its
\* SplitWhitespace field) and the count of read_line calls made on it.
\* Mutant: self.line.clear() forgotten, the new line is appended to the old.
read_line_no_clear(st) ==
    LET b == st.buf
        e == LineEnd(b)
        failed == e > 0 /\ b[e] = IoFault
        got == IF failed THEN SubSeq(b, 1, e - 1) ELSE SubSeq(b, 1, e)
        rest == SubSeq(b, e + 1, Len(b))
    IN  [st |-> [st EXCEPT !.buf = rest,
                           !.line = st.line \o got,
                           !.words = IF failed THEN <<>> ELSE st.line \o got,
                           !.refills = @ + 1],
         ret |-> IF failed THEN "Err" ELSE IF Len(got) = 0 THEN "None" ELSE "Some"]

\* Mutant: a line without tokens is taken for the end of the source.
read_line_blank_is_end(st) ==
    LET b == st.buf
        e == LineEnd(b)
        failed == e > 0 /\ b[e] = IoFault
        got == IF failed THEN SubSeq(b, 1, e - 1) ELSE SubSeq(b, 1, e)
        rest == SubSeq(b, e + 1, Len(b))
    IN  [st |-> [st EXCEPT !.buf = rest,
                           !.line = got,
                           !.words = IF failed THEN <<>> ELSE got,
                           !.refills = @ + 1],
         ret |-> IF failed THEN "Err"
                 ELSE IF SkipWhite(got) = <<>> THEN "None" ELSE "Some"]

\* Mutant: the cursor is not emptied first, a failing read leaves it as it was.
read_line_cursor_kept(st) ==
    LET b == st.buf
        e == LineEnd(b)
        failed == e > 0 /\ b[e] = IoFault
        got == IF failed THEN SubSeq(b, 1, e - 1) ELSE SubSeq(b, 1, e)
        rest == SubSeq(b, e + 1, Len(b))
    IN  [st |-> [st EXCEPT !.buf = rest,
                           !.line = got,
                           !.words = IF failed THEN st.words ELSE got,
                           !.refills = @ + 1],
         ret |-> IF failed THEN "Err" ELSE IF Len(got) = 0 THEN "None" ELSE "Some"]

read_line(st) ==
    LET b == st.buf
        e == LineEnd(b)
        failed == e > 0 /\ b[e] = IoFault
        got == IF failed THEN SubSeq(b, 1, e - 1) ELSE SubSeq(b, 1, e)
        rest == SubSeq(b, e + 1, Len(b))
    IN  [st |-> [st EXCEPT !.buf = rest,
                           !.line = got,
                           !.words = IF failed THEN <<>> ELSE got,
                           !.refills = @ + 1],
         ret |-> IF failed THEN "Err" ELSE IF Len(got) = 0 THEN "None" ELSE "Some"]

\* StrStream::next of WhiteReader: the refill loop.  Each step of the loop
\* body is an operator of its own, taking the outcome of the call before it.
RECURSIVE WhiteReader_next(_), next_scanned(_, _), next_refilled(_)

\* StrStream::next of SplitWhitespace, on the field words of a reader.
words_next(st, n) == [st |-> [st EXCEPT !.words = n.words], res |-> Ok(n.opt)]

\* Mutant: no loop, the line just read is scanned once.
next_refilled_once(rl) ==
    IF rl.ret = "Err" THEN [st |-> rl.st, res |-> IoError]
    ELSE IF rl.ret = "None" THEN [st |-> rl.st, res |-> Ok(None)]
    ELSE words_next(rl.st, SplitWhitespace_next(rl.st.words))

\* Mutant: a failed refill is tried again.
next_refilled_retrying(rl) ==
    IF rl.ret = "None" THEN [st |-> rl.st, res |-> Ok(None)]
    ELSE WhiteReader_next(rl.st)

\* After `if let None = try!( self.read_line() ) { return Ok(None) }`.
next_refilled(rl) ==
    IF rl.ret = "Err" THEN [st |-> rl.st, res |-> IoError]
    ELSE IF rl.ret = "None" THEN [st |-> rl.st, res |-> Ok(None)]
    ELSE WhiteReader_next(rl.st)

\* After `match try!( StrStream::next(&mut self.words) )`.
next_scanned(st, n) ==
    IF n.opt # None THEN [st |-> [st EXCEPT !.words = n.words], res |-> Ok(n.opt)]
    ELSE next_refilled(read_line([st EXCEPT !.words = n.words]))

WhiteReader_next(st) == next_scanned(st, SplitWhitespace_next(st.words))

\* StrStream::next, dispatched on the provider.
next(st) ==
    IF st.prov = "reader" THEN WhiteReader_next(st)
    ELSE words_next(st, SplitWhitespace_next(st.words))

\* ------------------------------------------------------------- White::read

RECURSIVE read(_, _), read_tuple(_, _, _), read_vec(_, _, _), read_lengthed(_, _, _, _)
RECURSIVE tuple_rest(_, _, _), vec_rest(_, _, _), lengthed_rest(_, _, _, _), lengthed_elems(_, _)

\* The white! macro: one token n, converted by str::parse.
scalar_of(k, n) ==
    IF ~IsOk(n.res) THEN n
    ELSE IF n.res.val = None THEN [st |-> n.st, res |-> TooShort]
    ELSE [st |-> n.st, res |-> from_str(k, n.res.val[1])]

read_scalar(k, st) == scalar_of(k, next(st))

\* impl White for char: the first character of one token n.
char_of(n) ==
    IF ~IsOk(n.res) THEN n
    ELSE IF n.res.val = None THEN [st |-> n.st, res |-> TooShort]
    ELSE [st |-> n.st, res |-> Ok(n.res.val[1][1])]

read_char(st) == char_of(next(st))

\* Mutant: after a failure the later components are still read, then the
\* failure is returned.
tuple_rest_reads_on(ts, acc, r) ==
    IF ~IsOk(r.res) THEN [st |-> read_tuple(Tail(ts), r.st, acc).st, res |-> r.res]
    ELSE read_tuple(Tail(ts), r.st, Append(acc, r.res.val))

\* impl White for (T, U) and (T, U, V): the components left to right, try! each.
tuple_rest(ts, acc, r) ==
    IF ~IsOk(r.res) THEN r
    ELSE read_tuple(Tail(ts), r.st, Append(acc, r.res.val))

read_tuple(ts, st, acc) ==
    IF ts = <<>> THEN [st |-> st, res |-> Ok(acc)]
    ELSE tuple_rest(ts, acc, read(Head(ts), st))

\* Mutant: any failure of an element ends the sequence, which is returned.
vec_rest_any_error_ends(t, v, r) ==
    IF ~IsOk(r.res) THEN [st |-> r.st, res |-> Ok(v)]
    ELSE read_vec(t, r.st, Append(v, r.res.val))

\* impl White for Vec<T>: while let Some(x) = try!(read.ok_or_none()) push.
vec_rest(t, v, r) ==
    IF ~IsOk(ok_or_none(r.res)) THEN [st |-> r.st, res |-> r.res]
    ELSE IF ok_or_none(r.res).val = None THEN [st |-> r.st, res |-> Ok(v)]
    ELSE read_vec(t, r.st, Append(v, r.res.val))

\* Mutant: the tokens read for an element that comes out TooShort are put back.
read_vec_rewinding(t, st, v) ==
    IF IsErr(read(t, st).res, "TooShort") THEN [st |-> st, res |-> Ok(v)]
    ELSE vec_rest(t, v, read(t, st))

read_vec(t, st, v) == vec_rest(t, v, read(t, st))

\* The loop of impl White for Lengthed<T>, sz already read.
lengthed_rest(t, sz, v, r) ==
    IF ~IsOk(ok_or_none(r.res)) THEN [st |-> r.st, res |-> r.res]
    ELSE IF ok_or_none(r.res).val = None THEN [st |-> r.st, res |-> TooShort]
    ELSE IF Len(v) + 1 = sz THEN [st |-> r.st, res |-> Ok(Append(v, r.res.val))]
    ELSE read_lengthed(t, r.st, sz, Append(v, r.res.val))

read_lengthed(t, st, sz, v) == lengthed_rest(t, sz, v, read(t, st))

\* impl White for Lengthed<T>, after `let sz = try!(White::read(it))`.
lengthed_elems(t, sz) ==
    IF ~IsOk(sz.res) THEN sz
    ELSE read_lengthed(t, sz.st, sz.res.val, <<>>)

\* White::read for the shape T on the stream st.
read(T, st) ==
    CASE T.k = "unit" -> [st |-> st, res |-> Ok(<<>>)]
      [] T.k \in {"u8", "usize", "string"} -> read_scalar(T.k, st)
      [] T.k = "char" -> read_char(st)
      [] T.k = "tuple" -> read_tuple(T.of, st, <<>>)
      [] T.k = "vec" -> read_vec(T.of[1], st, <<>>)
      [] T.k = "lengthed" -> lengthed_elems(T.of[1], read(Usize, st))

\* ------------------------------------------------------------- WhiteReader

\* A one-shot SplitWhitespace cursor over the text w, as a stream.
OneShot(w) == [prov |-> "words", buf |-> <<>>, line |-> <<>>, words |-> w, refills |-> 0]

\* The two providers of a reader: itself, and its field words.
AsReader(st) == [st EXCEPT !.prov = "reader"]
AsWords(st) == [st EXCEPT !.prov = "words"]

parse(T, st) == read(T, AsReader(st))

\* Mutant: reads through the reader, so it refills.
continue_line_refilling(T, st) == read(T, AsReader(st))

continue_line(T, st) == read(T, AsWords(st))

\* Mutant: the test looks at the next token and leaves it in the cursor.
leftovers_check_peeking(value, n) ==
    IF n.opt # None THEN [st |-> value.st, res |-> Leftovers]
    ELSE [st |-> [value.st EXCEPT !.words = n.words], res |-> value.res]

\* finish_line after `let value = try!( White::read(&mut self.words) )`:
\* n is what Iterator::next(&mut self.words) returns.
leftovers_check(value, n) ==
    IF n.opt # None THEN [st |-> [value.st EXCEPT !.words = n.words], res |-> Leftovers]
    ELSE [st |-> [value.st EXCEPT !.words = n.words], res |-> value.res]

finish_value(value) ==
    IF ~IsOk(value.res) THEN value
    ELSE leftovers_check(value, SplitWhitespace_next(value.st.words))

\* Mutant: the check for leftovers is missing.
finish_line_unchecked(T, st) == read(T, AsWords(st))

finish_line(T, st) == finish_value(read(T, AsWords(st)))

\* Mutant: parse_string without its test for leftovers.
parse_string_unchecked(T, s) == read(T, OneShot(s)).res

\* parse_string: read T from s.split_whitespace(), Leftovers if a token remains.
parse_string(T, s) == finish_value(read(T, OneShot(s))).res

\* Mutant: the test for zero bytes read is missing.
started_no_eof_check(T, rl) ==
    IF rl.ret = "Err" THEN [st |-> rl.st, res |-> IoError]
    ELSE read(T, AsWords(rl.st))

\* start_line after `if let None = try!( self.read_line() ) { return Err(TooShort); }`.
started(T, rl) ==
    IF rl.ret = "Err" THEN [st |-> rl.st, res |-> IoError]
    ELSE IF rl.ret = "None" THEN [st |-> rl.st, res |-> TooShort]
    ELSE read(T, AsWords(rl.st))

start_line(T, st) == started(T, read_line(st))

\* Mutant: the line is parsed as by start_line, leftovers pass.
line_read_unchecked(T, rl) ==
    IF rl.ret = "Err" THEN [st |-> rl.st, res |-> IoError]
    ELSE IF rl.ret = "None" THEN [st |-> rl.st, res |-> TooShort]
    ELSE read(T, AsWords(rl.st))

\* line after its read_line.
line_read(T, rl) ==
    IF rl.ret = "Err" THEN [st |-> rl.st, res |-> IoError]
    ELSE IF rl.ret = "None" THEN [st |-> rl.st, res |-> TooShort]
    ELSE finish_line(T, rl.st)

line_(T, st) == line_read(T, read_line(st))

\* Mutant: the returned line counts as consumed.
line_text_consumed(rl) ==
    IF rl.ret = "Err" THEN [st |-> rl.st, res |-> IoError]
    ELSE IF rl.ret = "None" THEN [st |-> rl.st, res |-> TooShort]
    ELSE [st |-> [rl.st EXCEPT !.words = <<>>], res |-> Ok(rl.st.line)]

\* next_line after its read_line.
line_text(rl) ==
    IF rl.ret = "Err" THEN [st |-> rl.st, res |-> IoError]
    ELSE IF rl.ret = "None" THEN [st |-> rl.st, res |-> TooShort]
    ELSE [st |-> rl.st, res |-> Ok(rl.st.line)]

next_line(st) == line_text(read_line(st))

\* ------------------------------------------------------------- the state machine

\* The reader as it stands, no read_line call counted yet.
Reader ==
    [prov |-> "reader", buf |-> buf, line |-> line, words |-> words, refills |-> 0]

Snapshot ==
    [buf |-> buf, line |-> line, words |-> words, stream |-> stream, ended |-> ended]

\* A call of a reader method with outcome o.
Call(op, T, o) ==
    /\ buf' = o.st.buf
    /\ line' = o.st.line
    /\ words' = o.st.words
    /\ last' = [op |-> op, shape |-> T, res |-> o.res,
                refills |-> o.st.refills, pre |-> Snapshot]

\* WhiteReader::new over a source holding the text src.
New(src) ==
    /\ buf = src
    /\ line = <<>>
    /\ words = <<>>
    /\ ended = {}
    /\ last = [op |-> "new", shape |-> Unit, res |-> Ok(<<>>), refills |-> 0,
               pre |-> [buf |-> src, line |-> <<>>, words |-> <<>>,
                        stream |-> <<>>, ended |-> {}]]

Init ==
    /\ \E src \in Sources : New(src)
    /\ stream = <<>>

Parse == \E T \in Shapes : Call("parse", T, parse(T, Reader)) /\ UNCHANGED <<stream, ended>>

Line == \E T \in Shapes : Call("line", T, line_(T, Reader)) /\ UNCHANGED <<stream, ended>>

StartLine ==
    \E T \in Shapes : Call("start_line", T, start_line(T, Reader)) /\ UNCHANGED <<stream, ended>>

ContinueLine ==
    \E T \in Shapes :
        Call("continue_line", T, continue_line(T, Reader)) /\ UNCHANGED <<stream, ended>>

FinishLine ==
    \E T \in Shapes :
        Call("finish_line", T, finish_line(T, Reader)) /\ UNCHANGED <<stream, ended>>

NextLine == Call("next_line", Unit, next_line(Reader)) /\ UNCHANGED <<stream, ended>>

Next == Parse \/ Line \/ StartLine \/ ContinueLine \/ FinishLine \/ NextLine

Spec == Init /\ [][Next]_vars

\* ------------------------------------------------------------- the two cursors

\* A reader over a source holding the text src, and src.split_whitespace().
InitCursors ==
    /\ \E src \in Sources : New(src)
    /\ stream = buf

Ended(who, res) == IF res = Ok(None) THEN ended \cup {who} ELSE ended

\* StrStream::next called on the reader.
ReaderNext ==
    /\ Call("reader.next", Unit, next(Reader))
    /\ ended' = Ended("reader", next(Reader).res)
    /\ UNCHANGED stream

\* StrStream::next called on the one-shot cursor.
StreamNext ==
    /\ stream' = next(OneShot(stream)).st.words
    /\ last' = [op |-> "stream.next", shape |-> Unit, res |-> next(OneShot(stream)).res,
                refills |-> 0, pre |-> Snapshot]
    /\ ended' = Ended("stream", next(OneShot(stream)).res)
    /\ UNCHANGED <<buf, line, words>>

NextCursors == ReaderNext \/ StreamNext \/ NextLine

SpecCursors == InitCursors /\ [][NextCursors]_vars

\* ------------------------------------------------------------- a failing source

\* The texts of a source one of whose reads is answered with an io::Error:
\* the marker IoFault stands where that read happens.
FaultAt(t, i) == SubSeq(t, 1, i) \o <<IoFault>> \o SubSeq(t, i + 1, Len(t))
IoSources == UNION {{FaultAt(t, i) : i \in 0..Len(t)} : t \in Texts(Alphabet, MaxSrcLen - 1)}

\* WhiteReader::new over a source that fails once.
InitIo ==
    /\ \E src \in IoSources : New(src)
    /\ stream = <<>>

SpecIo == InitIo /\ [][Next]_vars

\* ------------------------------------------------------------- one-shot parsing

\* The strings given to split_whitespace and to parse_string.
StrTexts == Texts(Alphabet \ {"\n"}, MaxSrcLen + 1)

\* The shapes read from a one-shot cursor.
StrShapes ==
    {U8, Char, Str, Tuple(<<U8, U8>>), Tuple(<<U8, U8, U8>>),
     Vec(U8), Vec(Tuple(<<U8, U8>>)), Lengthed(U8)}

ErrorKinds == {"TooShort", "Leftovers", "ParseError", "IoError"}

\* A cursor s.split_whitespace() over a string s.
InitStr ==
    /\ New(<<>>)
    /\ stream \in StrTexts

\* White::read(&mut stream) for the shape T.
StreamRead ==
    \E T \in StrShapes :
        /\ stream' = read(T, OneShot(stream)).st.words
        /\ last' = [op |-> "read", shape |-> T, res |-> read(T, OneShot(stream)).res,
                    refills |-> 0, pre |-> Snapshot]
        /\ UNCHANGED <<buf, line, words, ended>>

\* parse_string::<T>(s), s being the text the cursor has not scanned.
ParseString ==
    \E T \in StrShapes :
        /\ last' = [op |-> "parse_string", shape |-> T, res |-> parse_string(T, stream),
                    refills |-> 0, pre |-> Snapshot]
        /\ UNCHANGED <<buf, line, words, stream, ended>>

\* r.ok_or_none() for a result r.
OkOrNone(r) ==
    /\ last' = [op |-> "ok_or_none", shape |-> Unit, res |-> ok_or_none(r),
                refills |-> 0, pre |-> Snapshot, arg |-> r]
    /\ UNCHANGED <<buf, line, words, stream, ended>>

\* ok_or_none on the result of the last read, and on each kind of error.
OkOrNoneOfLast == last.op \in {"read", "parse_string"} /\ OkOrNone(last.res)

OkOrNoneOfErr == \E e \in ErrorKinds : OkOrNone(Err(e))

NextStr == StreamRead \/ ParseString \/ OkOrNoneOfLast \/ OkOrNoneOfErr

SpecStr == InitStr /\ [][NextStr]_vars

\* ------------------------------------------------------------- rendering and parsing back

MaxStrLen == 2

\* The values of the scalar shapes.
U8Values == {0, 7, 42, 255}
CharValues == {"x", "7", " "}
StrValues == Texts({"x", " "}, MaxStrLen)

ScalarValues(T) ==
    CASE T.k = "u8" -> U8Values
      [] T.k = "char" -> CharValues
      [] T.k = "string" -> StrValues

\* The tuples of scalars rendered and parsed back, and their values.
RtShapes == {Tuple(<<Str, U8>>), Tuple(<<Char, U8>>), Tuple(<<U8, Str, Char>>)}

Values(T) ==
    IF Len(T.of) = 2
    THEN {<<a, b>> : a \in ScalarValues(T.of[1]), b \in ScalarValues(T.of[2])}
    ELSE {<<a, b, c>> : a \in ScalarValues(T.of[1]), b \in ScalarValues(T.of[2]),
                        c \in ScalarValues(T.of[3])}

\* The text of a value, as format!("{}", v) writes it.
DigitChar(d) == CHOOSE c \in DOMAIN DigitVal : DigitVal[c] = d

RECURSIVE ToDecimal(_)
ToDecimal(n) ==
    IF n < 10 THEN <<DigitChar(n)>>
    ELSE ToDecimal(n \div 10) \o <<DigitChar(n % 10)>>

Display(T, v) ==
    CASE T.k = "u8" -> ToDecimal(v)
      [] T.k = "char" -> <<v>>
      [] T.k = "string" -> v

\* The components vs of the shapes ts, joined by one space.
RECURSIVE Joined(_, _)
Joined(ts, vs) ==
    IF Len(ts) = 1 THEN Display(ts[1], vs[1])
    ELSE Display(ts[1], vs[1]) \o <<" ">> \o Joined(Tail(ts), Tail(vs))

InitRt ==
    /\ New(<<>>)
    /\ stream = <<>>

\* parse_string::<T>(s) for the text s of a value v of T.
RoundTrip ==
    \E T \in RtShapes :
        \E v \in Values(T) :
            /\ last' = [op |-> "round_trip", shape |-> T,
                        res |-> parse_string(T, Joined(T.of, v)),
                        refills |-> 0, pre |-> Snapshot, arg |-> v]
            /\ UNCHANGED <<buf, line, words, stream, ended>>

NextRt == RoundTrip

SpecRt == InitRt /\ [][NextRt]_vars

\* ------------------------------------------------------------- the loops, step by step

\* Stands for usize::MAX, the most elements a Vec<()> takes before push
\* panics with "capacity overflow": more than the tokens of any source.
MaxPush == MaxSrcLen + 1

\* The shapes whose read is a loop.
LoopShapes == {Vec(U8), Vec(Unit), Vec(Tuple(<<U8, U8>>)), Lengthed(U8)}

\* A call of parse is inside its loop; it has returned; it has panicked.
InLoop == last.op = "parse.loop"
Returned == last.op = "parse"
Panicked == last.op = "parse.panic"

\* The reader, the read_line calls of the running call counted.
LoopReader == [Reader EXCEPT !.refills = last.refills]

\* The call of parse::<T>() stands at op: the reader is st, v holds the
\* elements pushed and sz the length read, pre is the reader at the call.
LoopState(op, T, res, st, v, sz, pre) ==
    /\ buf' = st.buf
    /\ line' = st.line
    /\ words' = st.words
    /\ last' = [op |-> op, shape |-> T, res |-> res, refills |-> st.refills,
                pre |-> pre, v |-> v, sz |-> sz]
    /\ UNCHANGED <<stream, ended>>

\* impl White for Lengthed<T>, after `let sz = try!(White::read(it))`.
LengthedBegin(T, sz) ==
    IF ~IsOk(sz.res) THEN LoopState("parse", T, sz.res, sz.st, <<>>, 0, Snapshot)
    ELSE LoopState("parse.loop", T, Ok(<<>>), sz.st, <<>>, sz.res.val, Snapshot)

\* parse::<T>() is called: `let mut v = vec![]`, for Lengthed after sz is read.
ParseBegin ==
    \E T \in LoopShapes :
        /\ ~InLoop /\ ~Panicked
        /\ IF T.k = "vec"
           THEN LoopState("parse.loop", T, Ok(<<>>), Reader, <<>>, 0, Snapshot)
           ELSE LengthedBegin(T, read(Usize, Reader))

\* Mutant: the end of the tokens does not end the loop.
Stepped_past_the_end(r) ==
    IF ~IsOk(r.res) /\ r.res.err # "TooShort"
    THEN LoopState("parse", last.shape, r.res, r.st, last.v, last.sz, last.pre)
    ELSE IF Len(last.v) = MaxPush
    THEN LoopState("parse.panic", last.shape, last.res, r.st, last.v, last.sz, last.pre)
    ELSE LoopState("parse.loop", last.shape, last.res, r.st,
                   Append(last.v, r.res.val), last.sz, last.pre)

\* One turn of the loop of Vec<T> or Lengthed<T>, r being what the read of
\* the element returned.
Stepped(r) ==
    IF ~IsOk(ok_or_none(r.res))
    THEN LoopState("parse", last.shape, r.res, r.st, last.v, last.sz, last.pre)
    ELSE IF ok_or_none(r.res).val = None
    THEN LoopState("parse", last.shape,
                   IF last.shape.k = "vec" THEN Ok(last.v) ELSE TooShort,
                   r.st, last.v, last.sz, last.pre)
    ELSE IF Len(last.v) = MaxPush
    THEN LoopState("parse.panic", last.shape, last.res, r.st, last.v, last.sz, last.pre)
    ELSE IF last.shape.k = "lengthed" /\ Len(last.v) + 1 = last.sz
    THEN LoopState("parse", last.shape, Ok(Append(last.v, r.res.val)),
                   r.st, Append(last.v, r.res.val), last.sz, last.pre)
    ELSE LoopState("parse.loop", last.shape, last.res, r.st,
                   Append(last.v, r.res.val), last.sz, last.pre)

ParseStep ==
    /\ InLoop
    /\ Stepped(read(last.shape.of[1], LoopReader))

\* StrStream::next is called on the reader.
NextCall ==
    /\ ~InLoop /\ ~Panicked
    /\ LoopState("reader.next", Unit, next(Reader).res, next(Reader).st, <<>>, 0, Snapshot)

NextLoop == ParseBegin \/ ParseStep \/ NextCall

SpecLoop == Init /\ [][NextLoop]_vars

\* ------------------------------------------------------------- notions the claims use

\* The tokens of a text: its maximal runs of non-whitespace, in order.
RECURSIVE Tokens(_)
Tokens(w) ==
    IF SkipWhite(w) = <<>> THEN <<>>
    ELSE <<SubSeq(SkipWhite(w), 1, RunLen(SkipWhite(w)))>>
         \o Tokens(SubSeq(SkipWhite(w), RunLen(SkipWhite(w)) + 1, Len(SkipWhite(w))))

IsSuffix(a, b) == Len(a) <= Len(b) /\ a = SubSeq(b, Len(b) - Len(a) + 1, Len(b))

\* The reader as it stood before the last call.
PreReader ==
    [prov |-> "reader", buf |-> last.pre.buf, line |-> last.pre.line,
     words |-> last.pre.words, refills |-> 0]

\* The rest of the current line followed by the lines not yet read.
Ahead(w, b) == w \o <<"\n">> \o b

\* The first line of the text b, its terminator included, and what follows it.
Newlines(b) == {i \in 1..Len(b) : b[i] = "\n"}
FirstLine(b) ==
    IF Newlines(b) = {} THEN b
    ELSE SubSeq(b, 1, CHOOSE i \in Newlines(b) : \A j \in Newlines(b) : i <= j)
RestLines(b) == SubSeq(b, Len(FirstLine(b)) + 1, Len(b))

\* Nothing left to read: no line in the source, no token in the cursor.
Exhausted(w, b) == b = <<>> /\ Tokens(w) = <<>>

\* Whether reading the shape T asks for at least one token.
RECURSIVE NeedsToken(_)
NeedsToken(T) ==
    CASE T.k \in {"u8", "usize", "string", "char", "lengthed"} -> TRUE
      [] T.k = "tuple" -> \E i \in 1..Len(T.of) : NeedsToken(T.of[i])
      [] OTHER -> FALSE

\* The value of the digit tokens ts, one u8 each.
U8s(ts) == [i \in 1..Len(ts) |-> Decimal(ts[i])]
AllU8(ts) == \A i \in 1..Len(ts) : IsOk(from_str("u8", ts[i]))

\* ------------------------------------------------------------- C1

\* C1: parse::<T>() is newline-agnostic: its result is the result of reading
\* T from one cursor over the unconsumed tokens of the current line followed
\* by the tokens of the lines not yet read, the tokens left afterwards are the
\* tokens that read leaves, and it reports TooShort only after a refill that
\* read zero bytes (line buffer and source empty).
C1_ParseIsNewlineAgnostic ==
    last.op = "parse" =>
        /\ SameRes(last.res,
                   read(last.shape, OneShot(Ahead(last.pre.words, last.pre.buf))).res)
        /\ Tokens(Ahead(words, buf)) =
               Tokens(read(last.shape, OneShot(Ahead(last.pre.words, last.pre.buf))).st.words)
        /\ (IsErr(last.res, "TooShort") =>
               last.refills >= 1 /\ buf = <<>> /\ line = <<>> /\ words = <<>>)

\* A pair read across a line boundary and an empty line.
C1_Witness ==
    /\ last.op = "parse"
    /\ last.shape = Tuple(<<U8, U8>>)
    /\ IsOk(last.res)
    /\ Tokens(last.pre.words) # <<>>
    /\ last.refills >= 2

\* ------------------------------------------------------------- C2

\* C2: continue_line::<T>() never refills: it leaves the line buffer and the
\* source as they were and consumes from the current line's cursor only.  Where
\* parse::<T>() would not refill either, the two agree; where parse would
\* refill (the line runs out while T still asks for a token) continue_line
\* returns TooShort, whatever the source still holds (a Vec, which takes
\* running out as its end, returns Ok with the line used up).
C2_ContinueLineNeverRefills ==
    last.op = "continue_line" =>
        /\ last.refills = 0
        /\ line = last.pre.line
        /\ buf = last.pre.buf
        /\ IsSuffix(words, last.pre.words)
        /\ IF parse(last.shape, PreReader).st.refills = 0
           THEN /\ SameRes(last.res, parse(last.shape, PreReader).res)
                /\ words = parse(last.shape, PreReader).st.words
           ELSE IF last.shape.k = "vec"
           THEN IsOk(last.res) /\ Tokens(words) = <<>>
           ELSE IsErr(last.res, "TooShort")

\* TooShort on a line with one token left, with more tokens in the source.
C2_Witness ==
    /\ last.op = "continue_line"
    /\ last.shape = Tuple(<<U8, U8>>)
    /\ IsErr(last.res, "TooShort")
    /\ Len(Tokens(last.pre.words)) = 1
    /\ Tokens(buf) # <<>>

\* ------------------------------------------------------------- C3

\* C3: finish_line::<T>() reads T from the current line without refilling and
\* returns Leftovers exactly when that read succeeded and a token of the line
\* is still unconsumed after it; otherwise it returns what the read returned.
\* For T = () it returns Ok exactly when the line has no token left, and
\* Leftovers otherwise.
C3_FinishLineLeftovers ==
    last.op = "finish_line" =>
        /\ last.refills = 0
        /\ line = last.pre.line
        /\ buf = last.pre.buf
        /\ (IsErr(last.res, "Leftovers") <=>
               /\ IsOk(read(last.shape, OneShot(last.pre.words)).res)
               /\ Tokens(read(last.shape, OneShot(last.pre.words)).st.words) # <<>>)
        /\ (~IsErr(last.res, "Leftovers") =>
               SameRes(last.res, read(last.shape, OneShot(last.pre.words)).res))
        /\ (last.shape = Unit =>
               IF Tokens(last.pre.words) = <<>> THEN last.res = Ok(<<>>)
               ELSE IsErr(last.res, "Leftovers"))

\* Leftovers after a scalar was read from a line holding more.
C3_Witness ==
    /\ last.op = "finish_line"
    /\ last.shape = U8
    /\ IsErr(last.res, "Leftovers")
    /\ Len(Tokens(last.pre.words)) >= 2

\* ------------------------------------------------------------- C4

\* C4: start_line::<T>() makes exactly one refill: whatever the cursor still
\* held, the line buffer becomes the next line of the source, and the result
\* and the cursor are those of reading T from that line alone; it returns
\* TooShort when the source has no more lines.
C4_StartLineOneRefill ==
    last.op = "start_line" =>
        /\ last.refills = 1
        /\ line = FirstLine(last.pre.buf)
        /\ buf = RestLines(last.pre.buf)
        /\ IF last.pre.buf = <<>>
           THEN IsErr(last.res, "TooShort") /\ words = <<>>
           ELSE /\ SameRes(last.res,
                           read(last.shape, OneShot(FirstLine(last.pre.buf))).res)
                /\ words = read(last.shape, OneShot(FirstLine(last.pre.buf))).st.words

\* A value read from the new line while the old line still had tokens.
C4_Witness ==
    /\ last.op = "start_line"
    /\ last.shape = U8
    /\ IsOk(last.res)
    /\ Tokens(last.pre.words) # <<>>

\* ------------------------------------------------------------- C5

\* C5: line::<T>() is one refill followed by finish_line::<T>(): in result and
\* in the reader it leaves it equals start_line::<()>() (TooShort when the
\* source is exhausted) followed by finish_line::<T>().  It returns Ok only
\* with the value of T read from the fresh line and no token of that line
\* left, Leftovers exactly when T was read and a token is left, and otherwise
\* the failure of reading T from that line (TooShort for too few tokens).
C5_LineIsStartThenFinish ==
    last.op = "line" =>
        /\ last.refills = 1
        /\ IF ~IsOk(start_line(Unit, PreReader).res)
           THEN /\ last.pre.buf = <<>>
                /\ IsErr(last.res, "TooShort")
                /\ <<buf, line, words>> =
                       <<start_line(Unit, PreReader).st.buf,
                         start_line(Unit, PreReader).st.line,
                         start_line(Unit, PreReader).st.words>>
           ELSE /\ SameRes(last.res,
                           finish_line(last.shape, start_line(Unit, PreReader).st).res)
                /\ <<buf, line, words>> =
                       <<finish_line(last.shape, start_line(Unit, PreReader).st).st.buf,
                         finish_line(last.shape, start_line(Unit, PreReader).st).st.line,
                         finish_line(last.shape, start_line(Unit, PreReader).st).st.words>>
                /\ line = FirstLine(last.pre.buf)
                /\ (IsOk(last.res) =>
                       /\ SameRes(last.res, read(last.shape, OneShot(line)).res)
                       /\ Tokens(read(last.shape, OneShot(line)).st.words) = <<>>)
                /\ (IsErr(last.res, "Leftovers") <=>
                       /\ IsOk(read(last.shape, OneShot(line)).res)
                       /\ Tokens(read(last.shape, OneShot(line)).st.words) # <<>>)
                /\ (~IsOk(read(last.shape, OneShot(line)).res) =>
                       SameRes(last.res, read(last.shape, OneShot(line)).res))

\* A fresh line holding exactly one pair.
C5_Witness ==
    /\ last.op = "line"
    /\ last.shape = Tuple(<<U8, U8>>)
    /\ IsOk(last.res)
    /\ Len(Tokens(line)) = 2
    /\ Tokens(words) = <<>>

\* ------------------------------------------------------------- C6

\* C6: a successful next_line makes exactly one refill, returns the text of
\* the line it read, and leaves that line unconsumed: the cursor holds all
\* the tokens of the returned line, so continue_line::<T>() now gives what
\* start_line::<T>() would have given in place of next_line, and parse::<T>()
\* now gives what reading T from the source as it was before next_line gives.
C6_NextLineDoesNotConsume ==
    (last.op = "next_line" /\ IsOk(last.res)) =>
        /\ last.refills = 1
        /\ last.res.val = FirstLine(last.pre.buf)
        /\ line = last.res.val
        /\ buf = RestLines(last.pre.buf)
        /\ Tokens(words) = Tokens(last.res.val)
        /\ \A T \in Shapes :
               /\ SameRes(continue_line(T, Reader).res, start_line(T, PreReader).res)
               /\ continue_line(T, Reader).st.words = start_line(T, PreReader).st.words
               /\ SameRes(parse(T, Reader).res, read(T, OneShot(last.pre.buf)).res)

\* A line with two tokens previewed.
C6_Witness ==
    /\ last.op = "next_line"
    /\ IsOk(last.res)
    /\ Len(Tokens(last.res.val)) >= 2
    /\ Len(Tokens(words)) >= 2

\* ------------------------------------------------------------- C7

\* C7: a refill tells the end of the source from an empty line.  With no byte
\* left in the source, start_line, line and next_line return TooShort.  With
\* a next line that holds no token (its terminator alone, or whitespace), the
\* refill succeeds: the line buffer holds that line, the cursor has no token,
\* next_line returns the line, start_line::<()> and line::<()> return Ok,
\* and the lines after it are still in the source for the next refill.
C7_EmptyLineIsNotTheEnd ==
    last.op \in {"start_line", "line", "next_line"} =>
        /\ (last.pre.buf = <<>> =>
               IsErr(last.res, "TooShort") /\ line = <<>> /\ words = <<>>)
        /\ (last.pre.buf # <<>> /\ Tokens(FirstLine(last.pre.buf)) = <<>> =>
               /\ line = FirstLine(last.pre.buf)
               /\ line # <<>>
               /\ Tokens(words) = <<>>
               /\ buf = RestLines(last.pre.buf)
               /\ (last.op = "next_line" => last.res = Ok(line))
               /\ (last.shape = Unit => IsOk(last.res))
               /\ (buf # <<>> => next_line(Reader).res = Ok(FirstLine(buf))))

\* An empty line read, with a line holding a token still behind it.
C7_Witness ==
    /\ last.op = "next_line"
    /\ IsOk(last.res)
    /\ Tokens(line) = <<>>
    /\ Tokens(buf) # <<>>

\* ------------------------------------------------------------- C8

ReaderOps == {"parse", "line", "start_line", "continue_line", "finish_line", "next_line"}

C9_NoneIsForGood ==
    /\ (last.op = "reader.next" /\ "reader" \in last.pre.ended => last.res = Ok(None))
    /\ (last.op = "stream.next" /\ "stream" \in last.pre.ended => last.res = Ok(None))

\* next called on the reader again after both cursors over a text with
\* tokens have returned None.
C9_Witness ==
    /\ last.op = "reader.next"
    /\ last.pre.ended = {"reader", "stream"}
    /\ last.res = Ok(None)
    /\ last.pre.line = <<>>

\* ------------------------------------------------------------- C10

\* C10: parse::<Lengthed<u8>>() on tokens that start with a count N: when N
\* elements follow, it returns exactly those N elements in order (for every
\* N, 0 included) and leaves the tokens after them unconsumed; when fewer
\* than N tokens follow, it returns TooShort.
C10_LengthedReadsExactlyN ==
    (/\ last.op = "parse"
     /\ last.shape = Lengthed(U8)
     /\ Tokens(Ahead(last.pre.words, last.pre.buf)) # <<>>
     /\ IsOk(from_str("usize", Tokens(Ahead(last.pre.words, last.pre.buf))[1]))) =>
        LET toks == Tokens(Ahead(last.pre.words, last.pre.buf))
            N == Decimal(toks[1])
        IN  IF Len(toks) >= N + 1
            THEN AllU8(SubSeq(toks, 2, N + 1)) =>
                    /\ last.res = Ok(U8s(SubSeq(toks, 2, N + 1)))
                    /\ Tokens(Ahead(words, buf)) = SubSeq(toks, N + 2, Len(toks))
            ELSE AllU8(SubSeq(toks, 2, Len(toks))) => IsErr(last.res, "TooShort")

\* The same statement for the counts N >= 1 alone.
C10_LengthedFromOne ==
    (/\ last.op = "parse"
     /\ last.shape = Lengthed(U8)
     /\ Tokens(Ahead(last.pre.words, last.pre.buf)) # <<>>
     /\ IsOk(from_str("usize", Tokens(Ahead(last.pre.words, last.pre.buf))[1]))
     /\ Decimal(Tokens(Ahead(last.pre.words, last.pre.buf))[1]) >= 1) =>
        C10_LengthedReadsExactlyN

\* ------------------------------------------------------------- C11

\* Where the source answers a read with an error.
Faults(b) == {i \in 1..Len(b) : b[i] = IoFault}

\* The lines of b that end before the place i.
LinesBefore(b, i) ==
    IF {j \in Newlines(b) : j < i} = {} THEN <<>>
    ELSE SubSeq(b, 1, CHOOSE j \in Newlines(b) : j < i /\ \A k \in Newlines(b) : k < i => k <= j)

\* The text whose tokens reach the reader before the source fails or ends:
\* the rest of the current line, and the lines read whole.
Delivered(w, b) ==
    IF Faults(b) = {} THEN Ahead(w, b)
    ELSE Ahead(w, LinesBefore(b, CHOOSE i \in Faults(b) : TRUE))

\* C11: reading Vec<u8> reads elements until one fails.  When every token
\* that reaches the reader converts and the source ends, the result is Ok of
\* all of them in order (the empty vector when there is none); when a token
\* does not convert the result is ParseError, and when the source fails it is
\* IoError: no partial vector is returned.
C11_VecReadsToTooShort ==
    (last.op = "parse" /\ last.shape = Vec(U8)) =>
        LET toks == Tokens(Delivered(last.pre.words, last.pre.buf))
        IN  IF ~AllU8(toks) THEN SameRes(last.res, ParseError)
            ELSE IF Faults(last.pre.buf) # {} THEN SameRes(last.res, IoError)
            ELSE /\ SameRes(last.res, Ok(U8s(toks)))
                 /\ Exhausted(words, buf)

C11_Witness ==
    /\ last.op = "parse" /\ last.shape = Vec(U8)
    /\ IsOk(last.res) /\ Len(last.res.val) = 2

\* ------------------------------------------------------------- C12

\* The shapes made of a fixed number of u8: u8 itself and the tuples of u8.
Arity(T) == IF T.k = "tuple" THEN Len(T.of) ELSE 1
FixedU8(T) == T = U8 \/ (T.k = "tuple" /\ \A i \in 1..Len(T.of) : T.of[i] = U8)
ValueU8(T, ts) == IF T.k = "tuple" THEN U8s(ts) ELSE Decimal(ts[1])

\* The first n tokens of ts, or all of them when there are fewer.
FirstTokens(ts, n) == SubSeq(ts, 1, IF Len(ts) < n THEN Len(ts) ELSE n)

\* C12: parse_string::<T>(s) classifies s.  For T made of n u8: ParseError
\* when one of the first n tokens does not convert, else TooShort when s has
\* fewer than n tokens, else Leftovers when it has more, else Ok of the n
\* values.  For every T: the result is Leftovers exactly when T is read from
\* the tokens of s with success and a token remains, Ok is the value read and
\* comes only with no token remaining, and a failure of the read is returned
\* as it is.
C12_ParseStringClassifies ==
    last.op = "parse_string" =>
        LET T == last.shape
            toks == Tokens(last.pre.stream)
            value == read(T, OneShot(last.pre.stream))
        IN  /\ FixedU8(T) =>
                IF ~AllU8(FirstTokens(toks, Arity(T))) THEN SameRes(last.res, ParseError)
                ELSE IF Len(toks) < Arity(T) THEN SameRes(last.res, TooShort)
                ELSE IF Len(toks) > Arity(T) THEN SameRes(last.res, Leftovers)
                ELSE SameRes(last.res, Ok(ValueU8(T, toks)))
            /\ IsErr(last.res, "Leftovers") <=>
                (IsOk(value.res) /\ Tokens(value.st.words) # <<>>)
            /\ IsOk(last.res) =>
                (SameRes(last.res, value.res) /\ Tokens(value.st.words) = <<>>)
            /\ ~IsOk(value.res) => SameRes(last.res, value.res)
            /\ stream = last.pre.stream

C12_Witness ==
    /\ last.op = "parse_string" /\ last.shape = Tuple(<<U8, U8>>)
    /\ IsErr(last.res, "Leftovers")
    /\ Len(Tokens(last.pre.stream)) = 3

\* ------------------------------------------------------------- C13

\* C13: ok_or_none maps Ok(x) to Ok(Some(x)), Err(TooShort) to Ok(None), and
\* returns every other error (Leftovers, ParseError, IoError) as it is.
C13_OkOrNoneMapsOnlyTooShort ==
    last.op = "ok_or_none" =>
        IF last.arg.tag = "Ok"
        THEN last.res.tag = "Ok" /\ last.res.val = <<last.arg.val>>
        ELSE IF last.arg.err = "TooShort"
        THEN last.res.tag = "Ok" /\ last.res.val = <<>>
        ELSE last.res.tag = "Err" /\ last.res.err = last.arg.err
             /\ last.arg.err \in {"Leftovers", "ParseError", "IoError"}

C13_Witness ==
    /\ last.op = "ok_or_none"
    /\ last.arg.tag = "Err" /\ last.arg.err = "IoError"
    /\ last.res.tag = "Err" /\ last.res.err = "IoError"

\* ------------------------------------------------------------- C14

\* The value vs of the shapes ts is written as one token per component:
\* no string is empty or holds white space, no char is white space.
OneTokenEach(ts, vs) ==
    \A i \in 1..Len(ts) :
        /\ ts[i] = Str => (vs[i] # <<>> /\ \A j \in 1..Len(vs[i]) : ~is_whitespace(vs[i][j]))
        /\ ts[i] = Char => ~is_whitespace(vs[i])

\* C14 as stated: the text of any tuple of scalars (arity 2 or 3, strings and
\* chars among the components), its components joined by white space, is
\* parsed back by parse_string to the same tuple.
C14_RoundTripOfAnyTuple ==
    last.op = "round_trip" => SameRes(last.res, Ok(last.arg))

\* C14, amended: the text of a tuple of scalars is parsed back to the same
\* tuple when each component is written as one token, that is no string
\* component is empty or holds white space and no char component is white
\* space; for the other tuples parse_string does not give the tuple back.
C14_RoundTripOfTokens ==
    last.op = "round_trip" =>
        (OneTokenEach(last.shape.of, last.arg) <=> SameRes(last.res, Ok(last.arg)))

C14_Witness ==
    /\ last.op = "round_trip" /\ last.shape = Tuple(<<U8, Str, Char>>)
    /\ last.arg = <<42, <<"x", "x">>, "7">>
    /\ SameRes(last.res, Ok(last.arg))

\* ------------------------------------------------------------- C15

\* C15: in every state reached through new, parse, line, start_line,
\* continue_line, finish_line and next_line, a failed refill included, the
\* cursor words is empty or ranges over the end of the text of line, so its
\* tokens are the last tokens of line; line changes only in a call that
\* refilled, and a failed refill leaves the cursor empty.
C15_CursorInsideLine ==
    /\ words = <<>> \/ IsSuffix(words, line)
    /\ IsSuffix(Tokens(words), Tokens(line))
    /\ line # last.pre.line => last.refills >= 1
    /\ IsErr(last.res, "IoError") => words = <<>>

\* A refill fails on a partial line while the cursor still held a token.
C15_Witness ==
    /\ IsErr(last.res, "IoError")
    /\ Tokens(last.pre.words) # <<>>
    /\ Tokens(line) # <<>> /\ line # last.pre.line
    /\ words = <<>>

\* ------------------------------------------------------------- C16

\* The components of a tuple of n u8 that the tokens ts cannot give: the
\* token is missing or does not convert.
FailingAt(ts, n) == {i \in 1..n : i > Len(ts) \/ ~IsOk(from_str("u8", ts[i]))}
FirstOf(S) == CHOOSE i \in S : \A j \in S : i <= j

\* C16: a tuple of 2 or 3 u8 is read left to right and stops at the first
\* component that fails: the result is that failure (ParseError for a token
\* that does not convert, TooShort for a missing one), the tokens up to and
\* including the failing one are consumed and no later one is, so the next
\* read starts at the token after it.  With no failure the result is the
\* tuple of the values and exactly its tokens are consumed.
C16_TupleStopsAtFirstFailure ==
    (last.op = "read" /\ last.shape.k = "tuple" /\ FixedU8(last.shape)) =>
        LET n == Arity(last.shape)
            toks == Tokens(last.pre.stream)
            bad == FailingAt(toks, n)
        IN  IF bad = {}
            THEN /\ SameRes(last.res, Ok(U8s(SubSeq(toks, 1, n))))
                 /\ Tokens(stream) = SubSeq(toks, n + 1, Len(toks))
            ELSE IF FirstOf(bad) > Len(toks)
            THEN /\ SameRes(last.res, TooShort)
                 /\ Tokens(stream) = <<>>
            ELSE /\ SameRes(last.res, ParseError)
                 /\ Tokens(stream) = SubSeq(toks, FirstOf(bad) + 1, Len(toks))

\* The second of three components fails and the third token is still there.
C16_Witness ==
    /\ last.op = "read" /\ last.shape = Tuple(<<U8, U8, U8>>)
    /\ IsErr(last.res, "ParseError")
    /\ Len(Tokens(last.pre.stream)) = 3
    /\ AllU8(SubSeq(Tokens(last.pre.stream), 1, 1))
    /\ Len(Tokens(stream)) = 1

\* ------------------------------------------------------------- C17

\* The place in b of the read that fails, and the text that follows it.
FaultOf(b) == CHOOSE i \in Faults(b) : TRUE
AfterFault(b) == SubSeq(b, FaultOf(b) + 1, Len(b))

\* C17: a call whose refill meets the failing read of the source returns
\* IoError, whatever the shape read (scalar, tuple, Vec, Lengthed) and
\* whichever of parse, line, start_line and next_line made the refill: not
\* TooShort, not an absent or shortened value.  The failing read is made
\* once: the call made one read_line for each line before the failure and one
\* for the failing read, and the source stands right after it; the cursor is
\* left empty, over the part of the line read before the failure.  No call
\* returns IoError otherwise.
C17_IoErrorAfterOneAttempt ==
    last.op \in ReaderOps =>
        /\ (Faults(last.pre.buf) # {} /\ Faults(buf) = {}) =>
            /\ IsErr(last.res, "IoError")
            /\ last.op \in {"parse", "line", "start_line", "next_line"}
            /\ words = <<>>
            /\ buf = AfterFault(last.pre.buf)
            /\ line = SubSeq(last.pre.buf,
                             Len(LinesBefore(last.pre.buf, FaultOf(last.pre.buf))) + 1,
                             FaultOf(last.pre.buf) - 1)
            /\ last.refills =
                  Cardinality({j \in Newlines(last.pre.buf) : j < FaultOf(last.pre.buf)}) + 1
        /\ IsErr(last.res, "IoError") => (Faults(last.pre.buf) # {} /\ Faults(buf) = {})

\* A Vec<u8> has read the tokens of one line when the next refill fails.
C17_Witness ==
    /\ last.op = "parse" /\ last.shape = Vec(U8)
    /\ IsErr(last.res, "IoError")
    /\ last.refills = 2
    /\ Tokens(LinesBefore(last.pre.buf, FaultOf(last.pre.buf))) # <<>>
    /\ words = <<>>

\* ------------------------------------------------------------- C18

\* The pairs made of the values vs taken two by two, a last odd one left out.
Pairs(vs) == [i \in 1..(Len(vs) \div 2) |-> <<vs[2 * i - 1], vs[2 * i]>>]

\* C18: reading Vec<(u8, u8)> from tokens that all convert succeeds with the
\* complete pairs only, also when the tokens end in the middle of a pair; the
\* token read for the incomplete pair is consumed: it is not in the result
\* and no later read finds it.
C18_VecDropsIncompleteElement ==
    (last.op = "read" /\ last.shape = Vec(Tuple(<<U8, U8>>))
        /\ AllU8(Tokens(last.pre.stream))) =>
        /\ SameRes(last.res, Ok(Pairs(U8s(Tokens(last.pre.stream)))))
        /\ Tokens(stream) = <<>>
        /\ IsErr(read(U8, OneShot(stream)).res, "TooShort")

\* Three tokens: one pair is returned and the third token is gone.
C18_Witness ==
    /\ last.op = "read" /\ last.shape = Vec(Tuple(<<U8, U8>>))
    /\ Len(Tokens(last.pre.stream)) = 3 /\ AllU8(Tokens(last.pre.stream))
    /\ IsOk(last.res) /\ Len(last.res.val) = 1
    /\ Tokens(stream) = <<>>

\* ------------------------------------------------------------- C20

\* The text finish_line(T) or line(T) reads T from: the rest of the current
\* line, or the line that line() has just read.
LineChecked == IF last.op = "line" THEN FirstLine(last.pre.buf) ELSE last.pre.words

\* The tokens of that text left after T is read from it.
LeftAfterValue == Tokens(read(last.shape, OneShot(LineChecked)).st.words)

\* C20: when finish_line or line returns Leftovers, the test has taken the
\* first leftover token out of the cursor: the cursor holds the leftover
\* tokens but the first, so a continue_line that follows reads the second
\* leftover token (TooShort when there was one only) and so does a parse.
\* The test changes neither the buffer nor the source: finish_line leaves
\* both as they were, line leaves them as its refill made them.
C20_LeftoversTestConsumes ==
    (last.op \in {"finish_line", "line"} /\ IsErr(last.res, "Leftovers")) =>
        /\ LeftAfterValue # <<>>
        /\ Tokens(words) = Tail(LeftAfterValue)
        /\ SameRes(continue_line(Str, Reader).res,
                   IF Len(LeftAfterValue) >= 2 THEN Ok(LeftAfterValue[2]) ELSE TooShort)
        /\ Len(LeftAfterValue) >= 2 =>
               SameRes(parse(Str, Reader).res, Ok(LeftAfterValue[2]))
        /\ last.op = "finish_line" => (line = last.pre.line /\ buf = last.pre.buf)
        /\ last.op = "line" =>
               (line = FirstLine(last.pre.buf) /\ buf = RestLines(last.pre.buf))

\* Two tokens were left over: the first is gone, the second is still there.
C20_Witness ==
    /\ last.op = "finish_line" /\ IsErr(last.res, "Leftovers")
    /\ Len(LeftAfterValue) = 2
    /\ Len(Tokens(words)) = 1

\* ------------------------------------------------------------- C19

\* The lines of the text b, a last one without terminator counted.
NumLines(b) ==
    Cardinality(Newlines(b)) + (IF b # <<>> /\ b[Len(b)] # "\n" THEN 1 ELSE 0)

\* The tokens the reader has not delivered yet.
TokensAhead == Len(Tokens(Ahead(words, buf)))

\* The calls of parse and of StrStream::next made at most one read_line for
\* each line the source held, and one more.
RefillsBounded ==
    last.op \in {"parse", "parse.loop", "parse.panic", "reader.next"} =>
        last.refills <= NumLines(last.pre.buf) + 1

\* C19 as stated: every call of parse::<T>(), the sequence and the
\* length-prefixed shapes included, returns: no call is still in its loop
\* when its vector cannot take one more element.
C19_EveryCallReturns == ~Panicked

\* C19, amended: a call of parse::<T>() for a Vec<T> or Lengthed<T> whose
\* element asks for at least one token returns: each turn of its loop either
\* returns or leaves fewer tokens ahead, and it never fills its vector; it
\* returns what White::read gives on the reader as the call found it.  Every
\* call of parse and of StrStream::next on the reader makes at most one
\* read_line for each line left in the source and a last one reading zero
\* bytes.
C19_TokenReadingCallsReturn ==
    [][/\ (InLoop /\ NeedsToken(last.shape.of[1])) =>
            (Returned' \/ (InLoop' /\ TokensAhead' < TokensAhead))
       /\ Panicked' => ~NeedsToken(last.shape.of[1])
       /\ RefillsBounded'
       /\ Returned' => SameRes(last'.res, read(last'.shape, PreReader').res)]_vars

\* A Vec<u8> read over two lines returns after three read_line calls.
C19_Witness ==
    /\ Returned /\ last.shape = Vec(U8)
    /\ IsOk(last.res) /\ Len(last.res.val) = 2
    /\ NumLines(last.pre.buf) = 2
    /\ last.refills = 3

====
